---- MODULE Spec2Model ----
(***************************************************************************)
(* Emotion scoring (nlp_emo.py) and dataset persistence                    *)
(* (ai_dataset_studio.py: _next_idx, save_pair).                           *)
(*                                                                         *)
(* Texts are sequences of characters; a character is a one-element string  *)
(* ("a", "7", "_"), and a non-ASCII character is written by its name       *)
(* ("e_acute").  File names, CSV cells, labels and lexicon words are all   *)
(* texts, so formatting and parsing are computed character by character.   *)
(***************************************************************************)
EXTENDS Integers, Sequences, FiniteSets, TLC

VARIABLES
    dirExists,  \* out_dir exists
    pngs,       \* artifact files of out_dir: name -> content
    txts,       \* sidecar files of out_dir: name -> content
    index,      \* out_dir/index.csv
    proc,       \* per writer process: position in save_pair, arguments, locals
    log,        \* history: the save_pair calls that returned or raised, in order
    nfail,      \* history: number of I/O failures injected so far
    prior,      \* history: number of records in out_dir at process start
    saves,      \* history: number of artifact writes so far
    now,        \* the last value time.time() returned, whole seconds
    utext,      \* nlp_emo: the text given
    lex,        \* nlp_emo: the lexicon given
    res,        \* nlp_emo: what the last call returned or raised
    gui         \* Main: the widgets' contents, _last_img, the dialog shown

diskVars == <<dirExists, pngs, txts, index, proc, log, nfail, prior, saves, now>>

nlpVars == <<utext, lex, res, gui>>

vars == <<dirExists, pngs, txts, index, proc, log, nfail, prior, saves, now,
          utext, lex, res, gui>>

----------------------------------------------------------------------------
(* Bounds *)

MaxCalls == 2   \* save_pair calls begun in one behaviour

MaxFail == 1    \* I/O failures in one behaviour

MaxTokens == 3  \* pieces a text is put together from

MaxSaves == 1   \* on_save calls that reach save_pair in one session

\* numbers of records already in out_dir when the process starts
PriorCounts == {0, 1, 2}

\* the values time.time() takes, in whole seconds
Times == {0, 1}

----------------------------------------------------------------------------
(* Text helpers *)

Digits == <<"0", "1", "2", "3", "4", "5", "6", "7", "8", "9">>

IsDigit(c) == \E i \in 1..Len(Digits) : Digits[i] = c

DigitVal(c) == (CHOOSE i \in 1..Len(Digits) : Digits[i] = c) - 1

AllDigits(t) == Len(t) > 0 /\ \A i \in 1..Len(t) : IsDigit(t[i])

\* int("00012") = 12
RECURSIVE ParseInt(_)
ParseInt(t) ==
    IF t = <<>> THEN 0
    ELSE ParseInt(SubSeq(t, 1, Len(t) - 1)) * 10 + DigitVal(t[Len(t)])

\* str(n), n >= 0
RECURSIVE IntToStr(_)
IntToStr(n) ==
    IF n < 10 THEN <<Digits[n + 1]>>
    ELSE IntToStr(n \div 10) \o <<Digits[(n % 10) + 1]>>

StartsWith(t, pre) == Len(t) >= Len(pre) /\ SubSeq(t, 1, Len(pre)) = pre

EndsWith(t, suf) ==
    Len(t) >= Len(suf) /\ SubSeq(t, Len(t) - Len(suf) + 1, Len(t)) = suf

SeqMax(S) == IF S = {} THEN 0 ELSE CHOOSE x \in S : \A y \in S : y <= x

----------------------------------------------------------------------------
(* File names: f"{emotion}_{n:05d}.png", f"{emotion}_{n:05d}.txt" *)

PadWidth == 5

\* f"{n:05d}": zero-padded to at least 5 digits, never truncated
Pad5(n) ==
    LET s == IntToStr(n)
    IN  IF Len(s) >= PadWidth THEN s
        ELSE [i \in 1..(PadWidth - Len(s)) |-> "0"] \o s

Stem(emotion, n) == emotion \o <<"_">> \o Pad5(n)

PngExt == <<".", "p", "n", "g">>

TxtExt == <<".", "t", "x", "t">>

PngName(emotion, n) == Stem(emotion, n) \o PngExt

TxtName(emotion, n) == Stem(emotion, n) \o TxtExt

\* out_dir.glob(f"{emotion}_*.png")
GlobMatch(name, emotion) ==
    /\ StartsWith(name, emotion \o <<"_">>)
    /\ EndsWith(name, PngExt)
    /\ Len(name) >= Len(emotion) + 1 + Len(PngExt)

\* the text matched by * in a name that GlobMatch accepts
GlobMiddle(name, emotion) ==
    SubSeq(name, Len(emotion) + 2, Len(name) - Len(PngExt))

\* pat.match(p.name): ^emotion_(\d+)\.png$ ; the value is int(m.group(1)).
\* (re.I changes nothing here: glob already fixed the case of the name.)
PatMatch(name, emotion) ==
    GlobMatch(name, emotion) /\ AllDigits(GlobMiddle(name, emotion))

NextIdxNoIncrement(names, emotion) ==
    SeqMax({ParseInt(GlobMiddle(nm, emotion)) :
                nm \in {x \in names : PatMatch(x, emotion)}})

\* _next_idx: 1 + the largest number among the label's artifact names
NextIdx(names, emotion) ==
    SeqMax({ParseInt(GlobMiddle(nm, emotion)) :
                nm \in {x \in names : PatMatch(x, emotion)}}) + 1

----------------------------------------------------------------------------
(* index.csv: pandas DataFrame.to_csv / read_csv *)

\* the keys of `row`, in order: the header of index.csv
Cols ==
    <<"filename_png", "filename_txt", "emotion", "n", "seed", "phrase",
      "prompt", "timestamp">>

ColSet == {Cols[i] : i \in 1..Len(Cols)}

\* A DataFrame cell: a str, an int, a float (only whole floats arise here:
\* an int column that gained a missing value) or NaN.
PyStr(t) == [k |-> "str", s |-> t, i |-> 0]

PyInt(n) == [k |-> "int", s |-> <<>>, i |-> n]

PyFloat(n) == [k |-> "float", s |-> <<>>, i |-> n]

NaN == [k |-> "nan", s |-> <<>>, i |-> 0]

\* to_csv writes a str as it is, an int in decimal, the float 7.0 as "7.0"
\* and NaN as the empty field (na_rep = "").
FmtCell(c) ==
    CASE c.k = "str" -> c.s
      [] c.k = "int" -> IntToStr(c.i)
      [] c.k = "float" -> IntToStr(c.i) \o <<".", "0">>
      [] OTHER -> <<>>

\* df.to_csv(idx, index=False): the data lines of the file, one text per column
ToCsvRows(df) == [r \in 1..Len(df) |-> [c \in ColSet |-> FmtCell(df[r][c])]]

\* fields read_csv takes for a missing value (from pandas' default na_values;
\* a field absent from a short line is read as missing too)
NaValues == {<<>>, <<"N", "A">>}

\* "7.0": the only float texts to_csv writes here
IsFloatText(t) ==
    /\ Len(t) >= 3
    /\ EndsWith(t, <<".", "0">>)
    /\ AllDigits(SubSeq(t, 1, Len(t) - 2))

ParseNum(t) ==
    IF AllDigits(t) THEN ParseInt(t) ELSE ParseInt(SubSeq(t, 1, Len(t) - 2))

\* read_csv infers one dtype per column from all of its fields
ColKind(rows, c) ==
    LET vals == {rows[r][c] : r \in 1..Len(rows)}
        present == vals \ NaValues
    IN  IF Len(rows) = 0 THEN "object"
        ELSE IF present = {} THEN "float"
        ELSE IF \A t \in present : AllDigits(t)
             THEN (IF vals = present THEN "int" ELSE "float")
        ELSE IF \A t \in present : AllDigits(t) \/ IsFloatText(t) THEN "float"
        ELSE "object"

TypeCell(kind, t) ==
    IF t \in NaValues THEN NaN
    ELSE CASE kind = "int" -> PyInt(ParseInt(t))
           [] kind = "float" -> PyFloat(ParseNum(t))
           [] OTHER -> PyStr(t)

\* pd.read_csv(idx)
ReadCsv(rows) ==
    [r \in 1..Len(rows) |->
        [c \in ColSet |-> TypeCell(ColKind(rows, c), rows[r][c])]]

\* dtype of a column of a DataFrame that read_csv returned
DfDtype(df, c) ==
    IF Len(df) = 0 THEN "object"
    ELSE IF \A r \in 1..Len(df) : df[r][c].k \in {"float", "nan"} THEN "float"
    ELSE IF \A r \in 1..Len(df) : df[r][c].k = "int" THEN "int"
    ELSE "object"

\* pd.concat([df, pd.DataFrame([row])], ignore_index=True): a float64 column
\* joined with an int64 one is float64; any other pair keeps each value
Concat(df, row) ==
    Append(df,
           [c \in ColSet |->
               IF DfDtype(df, c) = "float" /\ row[c].k = "int"
               THEN PyFloat(row[c].i) ELSE row[c]])

\* the dict `row` of save_pair
RowOf(emotion, n, seed, phrase, prompt, ts) ==
    [c \in ColSet |->
        CASE c = "filename_png" -> PyStr(PngName(emotion, n))
          [] c = "filename_txt" -> PyStr(TxtName(emotion, n))
          [] c = "emotion" -> PyStr(emotion)
          [] c = "n" -> PyInt(n)
          [] c = "seed" -> PyInt(seed)
          [] c = "phrase" -> PyStr(phrase)
          [] c = "prompt" -> PyStr(prompt)
          [] OTHER -> PyInt(ts)]

\* index.csv: absent, empty (created, nothing written) or a header and lines
NoIndex == [st |-> "absent", rows |-> <<>>]

EmptyIndex == [st |-> "empty", rows |-> <<>>]

Table(rows) == [st |-> "table", rows |-> rows]

----------------------------------------------------------------------------
(* nlp_emo.py: characters *)

Lowercase ==
    <<"a", "b", "c", "d", "e", "f", "g", "h", "i", "j", "k", "l", "m", "n", "o", "p", "q", "r", "s", "t", "u", "v", "w", "x", "y", "z">>

Uppercase ==
    <<"A", "B", "C", "D", "E", "F", "G", "H", "I", "J", "K", "L", "M", "N", "O", "P", "Q", "R", "S", "T", "U", "V", "W", "X", "Y", "Z">>

\* in code point order: the order Python compares str by
CodeOrder ==
    <<"\t", " ", "!", ".">> \o Digits \o Uppercase \o <<"_">> \o Lowercase
        \o <<"nbsp", "E_ACUTE", "sharp_s", "e_acute", "combining_acute">>

Code(c) == CHOOSE i \in 1..Len(CodeOrder) : CodeOrder[i] = c

IsLower(c) == \E i \in 1..Len(Lowercase) : Lowercase[i] = c

IsUpper(c) == \E i \in 1..Len(Uppercase) : Uppercase[i] = c

\* \s of a str pattern: Unicode white space
IsSpace(c) == c \in {" ", "\t", "nbsp"}

\* \w of a str pattern: Unicode letters and digits, and "_"
IsWordChar(c) ==
    \/ IsLower(c) \/ IsUpper(c) \/ IsDigit(c) \/ c = "_"
    \/ c \in {"E_ACUTE", "e_acute", "sharp_s"}

\* str.lower(), one character
LowerChar(c) ==
    IF IsUpper(c) THEN Lowercase[CHOOSE i \in 1..Len(Uppercase) : Uppercase[i] = c]
    ELSE IF c = "E_ACUTE" THEN "e_acute"
    ELSE c

\* unicodedata.normalize("NFD", c): the canonical decomposition
NFD(c) == IF c = "e_acute" THEN <<"e", "combining_acute">>
          ELSE IF c = "E_ACUTE" THEN <<"E", "combining_acute">>
          ELSE <<c>>

\* unicodedata.category(c) == "Mn"
IsMn(c) == c = "combining_acute"

\* python's str <: by code point, a proper prefix first
RECURSIVE StrLess(_, _)
StrLess(a, b) ==
    IF b = <<>> THEN FALSE
    ELSE IF a = <<>> THEN TRUE
    ELSE IF a[1] = b[1] THEN StrLess(Tail(a), Tail(b))
    ELSE Code(a[1]) < Code(b[1])

----------------------------------------------------------------------------
(* normalize *)

Lower(t) == [i \in 1..Len(t) |-> LowerChar(t[i])]

\* "".join(c for c in NFD(text) if category(c) != "Mn")
RECURSIVE StripAccents(_)
StripAccents(t) ==
    IF t = <<>> THEN <<>>
    ELSE SelectSeq(NFD(t[1]), LAMBDA c : ~IsMn(c)) \o StripAccents(Tail(t))

\* re.sub(r"[^a-z0-9\s]", " ", text)
PunctToSpace(t) ==
    [i \in 1..Len(t) |->
        IF IsLower(t[i]) \/ IsDigit(t[i]) \/ IsSpace(t[i]) THEN t[i] ELSE " "]

\* re.sub(r"\s+", " ", text)
RECURSIVE CollapseSpaces(_)
CollapseSpaces(t) ==
    IF t = <<>> THEN <<>>
    ELSE IF IsSpace(t[1])
         THEN IF Len(t) > 1 /\ IsSpace(t[2]) THEN CollapseSpaces(Tail(t))
              ELSE <<" ">> \o CollapseSpaces(Tail(t))
    ELSE <<t[1]>> \o CollapseSpaces(Tail(t))

\* str.strip()
RECURSIVE Strip(_)
Strip(t) ==
    IF t = <<>> THEN <<>>
    ELSE IF IsSpace(t[1]) THEN Strip(Tail(t))
    ELSE IF IsSpace(t[Len(t)]) THEN Strip(SubSeq(t, 1, Len(t) - 1))
    ELSE t

NormalizeCollapseFirst(text) ==
    PunctToSpace(Strip(CollapseSpaces(StripAccents(Lower(text)))))

Normalize(text) ==
    Strip(CollapseSpaces(PunctToSpace(StripAccents(Lower(text)))))

----------------------------------------------------------------------------
(* the lexicon: a dict in insertion order, label -> (word -> weight) *)

\* DEFAULT_LEXICON, its six labels in order, two or three words of each
DEFAULT_LEXICON ==
    <<
      [label |-> <<"j", "o", "i", "e">>,
       words |-> <<[w |-> <<"r", "a", "v", "i">>, weight |-> 2],
                   [w |-> <<"f", "e", "t", "e">>, weight |-> 1],
                   [w |-> <<"m", "o", "t", "i", "v", "e_acute">>, weight |-> 2]>>],
      [label |-> <<"t", "r", "i", "s", "t", "e", "s", "s", "e">>,
       words |-> <<[w |-> <<"t", "r", "i", "s", "t", "e">>, weight |-> 2],
                   [w |-> <<"p", "l", "u", "i", "e">>, weight |-> 1],
                   [w |-> <<"c", "o", "e", "u", "r", " ", "b", "r", "i", "s", "e">>, weight |-> 2]>>],
      [label |-> <<"c", "o", "l", "e", "r", "e">>,
       words |-> <<[w |-> <<"r", "a", "g", "e">>, weight |-> 2],
                   [w |-> <<"c", "r", "i", "s", "e">>, weight |-> 1]>>],
      [label |-> <<"c", "a", "l", "m", "e">>,
       words |-> <<[w |-> <<"z", "e", "n">>, weight |-> 2],
                   [w |-> <<"n", "u", "i", "t">>, weight |-> 1]>>],
      [label |-> <<"m", "y", "s", "t", "e", "r", "e">>,
       words |-> <<[w |-> <<"l", "u", "n", "e">>, weight |-> 1],
                   [w |-> <<"c", "a", "c", "h", "e_acute">>, weight |-> 1]>>],
      [label |-> <<"e", "n", "e", "r", "g", "i", "e">>,
       words |-> <<[w |-> <<"b", "o", "o", "m">>, weight |-> 1],
                   [w |-> <<"s", "p", "o", "r", "t">>, weight |-> 1]>>]
    >>

\* the same mapping built in the opposite order (a JSON file lists the
\* labels as its author likes)
RECURSIVE Reverse(_)
Reverse(q) == IF q = <<>> THEN <<>> ELSE Append(Reverse(Tail(q)), q[1])

Lexicons == {DEFAULT_LEXICON, Reverse(DEFAULT_LEXICON)}

LabelsOf(lexicon) == {lexicon[i].label : i \in 1..Len(lexicon)}

\* guess_emotion's default and the label analyze_text_emotion falls back on
DefaultLabel == <<"c", "a", "l", "m", "e">>

\* what load_lexicon is given: no path, a path to nothing, a JSON file of
\* the right shape, a file that is not JSON, a file that cannot be opened
LexSources == {"none", "missing", "valid", "malformed", "unreadable"}

Value(lexicon) == [raised |-> "", lexicon |-> lexicon]

Raised(what) == [raised |-> what, lexicon |-> <<>>]

\* load_lexicon(path); `stored`: the lexicon a valid file holds
LoadLexicon(src, stored) ==
    IF src \in {"none", "missing"} THEN Value(DEFAULT_LEXICON)
    ELSE IF src = "unreadable" THEN Raised("PermissionError")
    ELSE IF src = "malformed" THEN Raised("JSONDecodeError")
    ELSE Value(stored)

----------------------------------------------------------------------------
(* score_emotions, guess_emotion *)

\* \b at the gap after t[pos] (pos = 0: the start, pos = Len(t): the end)
Boundary(t, pos) ==
    (pos >= 1 /\ IsWordChar(t[pos])) # (pos < Len(t) /\ IsWordChar(t[pos + 1]))

\* re.search(rf"\b{re.escape(w)}\b", t)
WordSearch(w, t) ==
    \E i \in 1..(Len(t) - Len(w) + 1) :
        /\ SubSeq(t, i, i + Len(w) - 1) = w
        /\ Boundary(t, i - 1)
        /\ Boundary(t, i + Len(w) - 1)

RECURSIVE SumWeights(_, _)
SumWeights(words, t) ==
    IF words = <<>> THEN 0
    ELSE (IF WordSearch(words[1].w, t) THEN words[1].weight ELSE 0)
            + SumWeights(Tail(words), t)

AnyMatch(words, t) == \E i \in 1..Len(words) : WordSearch(words[i].w, t)

\* the dict score_emotions returns, in insertion order: the labels with a
\* matched word, in lexicon order
RECURSIVE ScoreLabels(_, _)
ScoreLabels(lexicon, t) ==
    IF lexicon = <<>> THEN <<>>
    ELSE (IF AnyMatch(lexicon[1].words, t)
          THEN <<[k |-> lexicon[1].label,
                  v |-> SumWeights(lexicon[1].words, t)]>>
          ELSE <<>>) \o ScoreLabels(Tail(lexicon), t)

ScoreEmotions(text, lexicon) == ScoreLabels(lexicon, Normalize(text))

\* key(a) < key(b) for the three sort keys of the module:
\*   "score_name"  key=lambda kv: (-kv[1], kv[0])   (guess_emotion)
\*   "score"       key=lambda kv: -kv[1] on scores
\*   "prob"        key=lambda kv: -kv[1] on probabilities num / den
KeyLess(key, a, b) ==
    CASE key = "score_name" -> a.v > b.v \/ (a.v = b.v /\ StrLess(a.k, b.k))
      [] key = "score" -> a.v > b.v
      [] OTHER -> a.num * b.den > b.num * a.den

\* sorted(items, key=...) is stable: items with equal keys keep their order
\* x, which came before every item of the sorted q, goes before the first
\* item whose key is not smaller than its own
RECURSIVE Insert(_, _, _)
Insert(x, q, key) ==
    IF q = <<>> THEN <<x>>
    ELSE IF ~KeyLess(key, q[1], x) THEN <<x>> \o q
    ELSE <<q[1]>> \o Insert(x, Tail(q), key)

RECURSIVE Sorted(_, _)
Sorted(q, key) ==
    IF q = <<>> THEN <<>>
    ELSE Insert(q[1], Sorted(Tail(q), key), key)

GuessEmotionNoTieBreak(text, lexicon, default) ==
    LET scores == ScoreEmotions(text, lexicon)
    IN  IF scores = <<>> THEN default
        ELSE Sorted(scores, "score")[1].k

\* guess_emotion(text, lexicon, default)
GuessEmotion(text, lexicon, default) ==
    LET scores == ScoreEmotions(text, lexicon)
    IN  IF scores = <<>> THEN default
        ELSE Sorted(scores, "score_name")[1].k

----------------------------------------------------------------------------
(* softmax_dict, analyze_text_emotion *)

\* math.exp(-d) in thousandths, d = 0, 1, 2, ...: strictly decreasing, as
\* the floats are over the score differences a lexicon of this size gives
ExpTable == <<1000, 368, 135, 50, 18, 7, 2, 1>>

Exp(d) == IF d + 1 <= Len(ExpTable) THEN ExpTable[d + 1] ELSE 0

RECURSIVE SumExp(_, _)
SumExp(d, m) ==
    IF d = <<>> THEN 0 ELSE Exp(m - d[1].v) + SumExp(Tail(d), m)

\* softmax_dict(d): the probability of k is the fraction num / den,
\* num = exp(v - m), den = the sum of the exps; same keys, same order
Softmax(d) ==
    IF d = <<>> THEN <<>>
    ELSE LET m == SeqMax({d[i].v : i \in 1..Len(d)})
             sumexp == SumExp(d, m)
         IN  [i \in 1..Len(d) |->
                 [k |-> d[i].k, num |-> Exp(m - d[i].v), den |-> sumexp]]

FirstTwo(q) == SubSeq(q, 1, IF Len(q) < 2 THEN Len(q) ELSE 2)

\* (valence, arousal) of each label, in hundredths
EMO_TO_VA ==
    <<[k |-> <<"j", "o", "i", "e">>, v |-> 85, a |-> 65],
      [k |-> <<"t", "r", "i", "s", "t", "e", "s", "s", "e">>, v |-> 20, a |-> 30],
      [k |-> <<"c", "o", "l", "e", "r", "e">>, v |-> 15, a |-> 85],
      [k |-> <<"c", "a", "l", "m", "e">>, v |-> 60, a |-> 25],
      [k |-> <<"m", "y", "s", "t", "e", "r", "e">>, v |-> 45, a |-> 40],
      [k |-> <<"e", "n", "e", "r", "g", "i", "e">>, v |-> 70, a |-> 80]>>

\* EMO_TO_VA.get(k, (0.5, 0.5))
VaOf(k) ==
    IF \E i \in 1..Len(EMO_TO_VA) : EMO_TO_VA[i].k = k
    THEN EMO_TO_VA[CHOOSE i \in 1..Len(EMO_TO_VA) : EMO_TO_VA[i].k = k]
    ELSE [k |-> k, v |-> 50, a |-> 50]

RECURSIVE WeightedSum(_, _)
WeightedSum(probs, axis) ==
    IF probs = <<>> THEN 0
    ELSE (IF axis = "v" THEN VaOf(probs[1].k).v ELSE VaOf(probs[1].k).a)
             * probs[1].num
         + WeightedSum(Tail(probs), axis)

\* aggregate_va(probs): the point (v / den, a / den), v and a in hundredths
AggregateVa(probs) ==
    IF probs = <<>> THEN [v |-> 50, a |-> 50, den |-> 1]
    ELSE [v |-> WeightedSum(probs, "v"), a |-> WeightedSum(probs, "a"),
          den |-> probs[1].den]

AnalyzeNoDefault(text, lexicon) ==
    LET sc == ScoreEmotions(text, lexicon)
        probs == Softmax(sc)
        top == FirstTwo(Sorted(probs, "prob"))
    IN  [labels |-> [i \in 1..Len(top) |-> top[i].k],
         probs |-> probs, va |-> AggregateVa(probs), raw_scores |-> sc]

\* analyze_text_emotion(text, lexicon): the EmotionOutput it returns; it
\* has no raise statement and every step of it is defined on every str
AnalyzeTextEmotion(text, lexicon) ==
    LET found == ScoreEmotions(text, lexicon)
        sc == IF found = <<>> THEN <<[k |-> DefaultLabel, v |-> 1]>> ELSE found
        probs == Softmax(sc)
        top == FirstTwo(Sorted(probs, "prob"))
    IN  [labels |-> [i \in 1..Len(top) |-> top[i].k],
         probs |-> probs, va |-> AggregateVa(probs), raw_scores |-> sc]

----------------------------------------------------------------------------
(* save_pair, one step per statement that touches out_dir *)

Procs == {1, 2}

Labels == {<<"j", "o", "y">>, <<"s", "a", "d">>}

\* phrases: plain text, and digits with a leading zero
Phrases == {<<"a", "b">>, <<"0", "7">>}

Prompts == {<<"p">>}

Seeds == {7}

\* the image rendered from a prompt and a seed, size=(896,448)
Render(prompt, seed) ==
    [id |-> "A", width |-> 896, height |-> 448, prompt |-> prompt,
     seed |-> seed]

\* the images save_pair is given
Images == {Render(<<"p">>, 7)}

\* _last_img = None
NoImage == [id |-> "none", width |-> 0, height |-> 0, prompt |-> <<>>,
            seed |-> 0]

IdleProc ==
    [pc |-> "idle", emotion |-> <<>>, phrase |-> <<>>, prompt |-> <<>>,
     seed |-> 0, img |-> NoImage, n |-> 0, ts |-> 0, df |-> <<>>,
     began |-> 0, savedAt |-> 0]

\* the names in out_dir
DirNames ==
    DOMAIN pngs \cup DOMAIN txts
        \cup (IF index.st = "absent" THEN {}
              ELSE {<<"i", "n", "d", "e", "x", ".", "c", "s", "v">>})

Started == Len(log) + Cardinality({q \in Procs : proc[q].pc # "idle"})

\* the call returns (ok) or raises at `step`; made: whether it wrote an
\* artifact file.  began: the calls that had ended when this one began;
\* savedAt: the rank of its artifact write among all artifact writes.
\* The log keeps the arguments of the call and the timestamp it took.
Return(p, ok, step, made) ==
    /\ proc' = [proc EXCEPT ![p] = IdleProc]
    /\ log' = Append(log, [p |-> p, emotion |-> proc[p].emotion,
                           n |-> proc[p].n, ok |-> ok, step |-> step,
                           made |-> made, began |-> proc[p].began,
                           savedAt |-> proc[p].savedAt,
                           seed |-> proc[p].seed, phrase |-> proc[p].phrase,
                           prompt |-> proc[p].prompt, ts |-> proc[p].ts,
                           img |-> proc[p].img])

Fail == nfail < MaxFail /\ nfail' = nfail + 1

\* save_pair(out_dir, emotion, phrase, prompt, seed, img) is called
Call(p) ==
    /\ proc[p].pc = "idle"
    /\ Started < MaxCalls
    /\ \E e \in Labels, ph \in Phrases, pr \in Prompts, sd \in Seeds,
          im \in Images :
          proc' = [proc EXCEPT ![p] =
                      [IdleProc EXCEPT !.pc = "mkdir", !.emotion = e,
                                       !.phrase = ph, !.prompt = pr,
                                       !.seed = sd, !.img = im,
                                       !.began = Len(log)]]
    /\ UNCHANGED <<dirExists, pngs, txts, index, log, nfail, prior, saves, now>>
    /\ UNCHANGED nlpVars

\* out_dir.mkdir(parents=True, exist_ok=True)
Mkdir(p) ==
    /\ proc[p].pc = "mkdir"
    /\ dirExists' = TRUE
    /\ proc' = [proc EXCEPT ![p].pc = "next_idx"]
    /\ UNCHANGED <<pngs, txts, index, log, nfail, prior, saves, now>>
    /\ UNCHANGED nlpVars

\* mkdir raises (permission, disk full); nothing to create cannot fail
MkdirFail(p) ==
    /\ proc[p].pc = "mkdir"
    /\ ~dirExists
    /\ Fail
    /\ Return(p, FALSE, "mkdir", FALSE)
    /\ UNCHANGED <<dirExists, pngs, txts, index, prior, saves, now>>
    /\ UNCHANGED nlpVars

\* n = _next_idx(out_dir, emotion)
Scan(p) ==
    /\ proc[p].pc = "next_idx"
    /\ proc' = [proc EXCEPT ![p].n = NextIdx(DirNames, proc[p].emotion),
                            ![p].pc = "save_png"]
    /\ UNCHANGED <<dirExists, pngs, txts, index, log, nfail, prior, saves, now>>
    /\ UNCHANGED nlpVars

Put(files, name, content) ==
    [x \in DOMAIN files \cup {name} |->
        IF x = name THEN content ELSE files[x]]

PutIfAbsent(files, name, content) ==
    IF name \in DOMAIN files THEN files ELSE Put(files, name, content)

\* a file written by open(name, "w"): created or replaced
WriteFile(files, name, content) == Put(files, name, content)

\* img.save(png)
SavePng(p) ==
    /\ proc[p].pc = "save_png"
    /\ saves' = saves + 1
    /\ pngs' = WriteFile(pngs, PngName(proc[p].emotion, proc[p].n),
                         [id |-> proc[p].img.id, whole |-> TRUE,
                          at |-> saves'])
    /\ proc' = [proc EXCEPT ![p].pc = "write_txt", ![p].savedAt = saves']
    /\ UNCHANGED <<dirExists, txts, index, log, nfail, prior, now>>
    /\ UNCHANGED nlpVars

\* img.save raises: the file was not opened, or a part of it was written
\* and stays (Pillow removes a file it created, older versions do not)
SavePngFail(p) ==
    /\ proc[p].pc = "save_png"
    /\ Fail
    /\ \E left \in BOOLEAN :
          /\ saves' = IF left THEN saves + 1 ELSE saves
          /\ pngs' = IF left
                     THEN WriteFile(pngs, PngName(proc[p].emotion, proc[p].n),
                                    [id |-> proc[p].img.id, whole |-> FALSE,
                                     at |-> saves'])
                     ELSE pngs
          /\ Return(p, FALSE, "save_png", left)
    /\ UNCHANGED <<dirExists, txts, index, prior, now>>
    /\ UNCHANGED nlpVars

\* meta = {...}; txt.write_text(json.dumps(meta, ...))
\* (the clock is read here and nowhere else: it has not gone backwards)
WriteTxt(p) ==
    /\ proc[p].pc = "write_txt"
    /\ now' \in {t \in Times : t >= now}
    /\ txts' = WriteFile(txts, TxtName(proc[p].emotion, proc[p].n),
                  [emotion |-> proc[p].emotion, n |-> proc[p].n,
                   timestamp |-> now', seed |-> proc[p].seed,
                   phrase |-> proc[p].phrase, prompt |-> proc[p].prompt,
                   width |-> proc[p].img.width, height |-> proc[p].img.height,
                   whole |-> TRUE])
    /\ proc' = [proc EXCEPT ![p].ts = now', ![p].pc = "read_idx"]
    /\ UNCHANGED <<dirExists, pngs, index, log, nfail, prior, saves>>
    /\ UNCHANGED nlpVars

\* write_text raises: the file was not opened, or is left cut short
WriteTxtFail(p) ==
    /\ proc[p].pc = "write_txt"
    /\ Fail
    /\ \E left \in BOOLEAN :
          txts' = IF left
                  THEN WriteFile(txts, TxtName(proc[p].emotion, proc[p].n),
                          [emotion |-> <<>>, n |-> 0, timestamp |-> 0,
                           seed |-> 0, phrase |-> <<>>, prompt |-> <<>>,
                           width |-> 0, height |-> 0, whole |-> FALSE])
                  ELSE txts
    /\ Return(p, FALSE, "write_txt", TRUE)
    /\ UNCHANGED <<dirExists, pngs, index, prior, saves, now>>
    /\ UNCHANGED nlpVars

ThisRow(p) ==
    RowOf(proc[p].emotion, proc[p].n, proc[p].seed, proc[p].phrase,
          proc[p].prompt, proc[p].ts)

\* if idx.exists(): df = concat(read_csv(idx), [row])  else: df = [row]
ReadIdx(p) ==
    /\ proc[p].pc = "read_idx"
    /\ index.st # "empty"
    /\ proc' = [proc EXCEPT
                  ![p].df = IF index.st = "absent" THEN <<ThisRow(p)>>
                            ELSE Concat(ReadCsv(index.rows), ThisRow(p)),
                  ![p].pc = "to_csv"]
    /\ UNCHANGED <<dirExists, pngs, txts, index, log, nfail, prior, saves, now>>
    /\ UNCHANGED nlpVars

\* read_csv of a file with no header line raises EmptyDataError
ReadIdxEmpty(p) ==
    /\ proc[p].pc = "read_idx"
    /\ index.st = "empty"
    /\ Return(p, FALSE, "read_idx", TRUE)
    /\ UNCHANGED <<dirExists, pngs, txts, index, nfail, prior, saves, now>>
    /\ UNCHANGED nlpVars

\* df.to_csv(idx, index=False); return SaveResult(png, txt, idx)
ToCsv(p) ==
    /\ proc[p].pc = "to_csv"
    /\ index' = Table(ToCsvRows(proc[p].df))
    /\ Return(p, TRUE, "done", TRUE)
    /\ UNCHANGED <<dirExists, pngs, txts, nfail, prior, saves, now>>
    /\ UNCHANGED nlpVars

ColPos(c) == CHOOSE i \in 1..Len(Cols) : Cols[i] = c

\* a line cut in column `at` after `keep` characters
Torn(line, at, keep) ==
    [c \in ColSet |->
        IF ColPos(c) < at THEN line[c]
        ELSE IF ColPos(c) = at THEN SubSeq(line[c], 1, keep)
        ELSE <<>>]

\* the columns a cut is tried in: the artifact name, the sidecar name, n
TornAt == {1, 2, 4}

\* the cuts of a line: in the middle of a field, or right before it when
\* that leaves something on the line
TornLines(line) ==
    {Torn(line, at, IF at = 1 THEN Len(line[Cols[at]]) \div 2 ELSE 0) :
        at \in TornAt}

\* what a rewrite that raised leaves: the old file (open refused), an empty
\* file, or the start of the new text, up to a whole line or into one
CutShort(lines) ==
    {EmptyIndex}
        \cup {Table(SubSeq(lines, 1, j)) : j \in 0..(Len(lines) - 1)}
        \cup UNION {{Table(Append(SubSeq(lines, 1, j), t)) :
                        t \in TornLines(lines[j + 1])} :
                    j \in 0..(Len(lines) - 1)}

\* to_csv rewrites index.csv in place, so a failure can leave it cut short
ToCsvFail(p) ==
    /\ proc[p].pc = "to_csv"
    /\ Fail
    /\ index' \in {index} \cup CutShort(ToCsvRows(proc[p].df))
    /\ Return(p, FALSE, "to_csv", TRUE)
    /\ UNCHANGED <<dirExists, pngs, txts, prior, saves, now>>
    /\ UNCHANGED nlpVars

----------------------------------------------------------------------------
(* The directory at process start: absent, empty, or left by earlier,     *)
(* successful save_pair calls.                                             *)

PriorLabel == <<"j", "o", "y">>

PriorPhrase == <<"a", "b">>

RECURSIVE PriorRows(_)
PriorRows(k) ==
    IF k = 0 THEN <<>>
    ELSE ToCsvRows(Concat(ReadCsv(PriorRows(k - 1)),
                          RowOf(PriorLabel, k, 7, PriorPhrase, <<"p">>, 0)))

PriorPngs(k) ==
    [x \in {PngName(PriorLabel, i) : i \in 1..k} |->
        [id |-> "A", whole |-> TRUE, at |-> 0]]

PriorTxts(k) ==
    [x \in {TxtName(PriorLabel, i) : i \in 1..k} |->
        [emotion |-> PriorLabel,
         n |-> CHOOSE i \in 1..k : TxtName(PriorLabel, i) = x,
         timestamp |-> 0, seed |-> 7, phrase |-> PriorPhrase,
         prompt |-> <<"p">>, width |-> 896, height |-> 448, whole |-> TRUE]]

InitDisk ==
    \E k \in PriorCounts :
        /\ prior = k
        /\ dirExists \in (IF k = 0 THEN BOOLEAN ELSE {TRUE})
        /\ pngs = PriorPngs(k)
        /\ txts = PriorTxts(k)
        /\ index = IF k = 0 THEN NoIndex ELSE Table(PriorRows(k))

\* nothing called yet
NoRes ==
    [op |-> "none", out |-> <<>>, prev |-> <<>>, label |-> <<>>,
     default |-> <<>>, labels |-> <<>>, probs |-> <<>>, va |-> <<>>,
     scores |-> <<>>, src |-> "", raised |-> "", lexicon |-> <<>>]

\* the window as Main.__init__ leaves it: empty phrase and prompt, the
\* first emotion of the list, seed 0, no image, no dialog
InitGui ==
    [phrase |-> <<>>, prompt |-> <<>>, emotion |-> <<"j", "o", "y">>,
     seed |-> 0, last_img |-> NoImage, msg |-> ""]

Init ==
    /\ InitDisk
    /\ proc = [p \in Procs |-> IdleProc]
    /\ log = <<>>
    /\ nfail = 0
    /\ saves = 0
    /\ now = 0
    /\ utext = <<>>
    /\ lex = <<>>
    /\ res = NoRes
    /\ gui = InitGui

Step(p) ==
    \/ Call(p)
    \/ Mkdir(p)
    \/ MkdirFail(p)
    \/ Scan(p)
    \/ SavePng(p)
    \/ SavePngFail(p)
    \/ WriteTxt(p)
    \/ WriteTxtFail(p)
    \/ ReadIdx(p)
    \/ ReadIdxEmpty(p)
    \/ ToCsv(p)
    \/ ToCsvFail(p)

\* one writer: the calls are sequential
Next == Step(1)

Spec == Init /\ [][Next]_vars

\* two writer processes on one out_dir; no I/O failure
StepOk(p) ==
    \/ Call(p)
    \/ Mkdir(p)
    \/ Scan(p)
    \/ SavePng(p)
    \/ WriteTxt(p)
    \/ ReadIdx(p)
    \/ ToCsv(p)

NextConc == \E p \in Procs : StepOk(p)

SpecConc == Init /\ [][NextConc]_vars

----------------------------------------------------------------------------
(* Claims about save_pair *)

\* the calls that returned
Succ == {i \in 1..Len(log) : log[i].ok}

\* the largest artifact number of a label in out_dir at process start
InitMax(e) == IF e = PriorLabel THEN prior ELSE 0

\* the successful calls for the label of call i that ended before it
PrevOk(i) == {j \in Succ : j < i /\ log[j].emotion = log[i].emotion}

\* the earlier calls for the label of call i that wrote an artifact file
PrevMade(i) ==
    {j \in 1..(i - 1) : log[j].emotion = log[i].emotion /\ log[j].made}

AllIdle == \A p \in Procs : proc[p].pc = "idle"

\* C1 (as stated): each successful call of one writer gets the index of the
\* previous successful call for its label plus 1, or, when there is none,
\* the largest index on disk at process start plus 1 (1 on an empty disk).
C1_NextAfterLastSuccess ==
    \A i \in Succ :
        log[i].n = (IF PrevOk(i) = {} THEN InitMax(log[i].emotion)
                    ELSE log[SeqMax(PrevOk(i))].n) + 1

\* C1 (amended): each successful call of one writer gets 1 + the largest
\* index among the label's artifact files then on disk: the largest at
\* process start, plus one for every earlier call for the label that wrote
\* an artifact file, whether it then returned or raised; and its artifact is
\* on disk under that index.
C1_NextAfterLastArtifact ==
    \A i \in Succ :
        /\ log[i].n = InitMax(log[i].emotion) + Cardinality(PrevMade(i)) + 1
        /\ PngName(log[i].emotion, log[i].n) \in DOMAIN pngs

\* C1 witness: after a restart on a directory with records, a call raised
\* after writing its artifact and a later call for the label returned.
C1_Witness ==
    \E i \in Succ : \E j \in 1..(i - 1) :
        /\ prior > 0
        /\ log[i].emotion = PriorLabel
        /\ log[j].emotion = PriorLabel
        /\ ~log[j].ok
        /\ log[j].made

\* the line to_csv writes for the row of the call in progress
ThisLine(p) == [c \in ColSet |-> FmtCell(ThisRow(p)[c])]

\* C2 (as stated): a successful call appends exactly one line at the end of
\* index.csv and leaves every earlier line as it was, in place.
C2_AppendsOneRow ==
    [][\A p \in Procs :
          (proc[p].pc = "to_csv" /\ proc'[p].pc = "idle" /\ log'[Len(log')].ok)
              => index'.rows = Append(index.rows, ThisLine(p))]_vars

\* C4 (as stated): whatever step raised, every line of index.csv names an
\* artifact file and a sidecar file that are on disk, and a call that
\* failed is on record as having raised.
C4_RowsNameFilesOnDisk ==
    /\ \A r \in 1..Len(index.rows) :
          /\ index.rows[r]["filename_png"] \in DOMAIN pngs
          /\ index.rows[r]["filename_txt"] \in DOMAIN txts
    /\ nfail = Cardinality({i \in 1..Len(log) :
                               ~log[i].ok /\ log[i].step # "read_idx"})

\* C3: two successful calls for one label got the same index only when they
\* were made by two processes and the later one to end began before the
\* earlier one ended; then the one artifact file under that name is the one
\* written last, and the calls that returned left fewer artifacts than
\* there were calls.
C3_SameIndexOverwrites ==
    \A i \in Succ : \A j \in Succ :
        (i < j /\ log[i].emotion = log[j].emotion /\ log[i].n = log[j].n)
            => /\ log[i].p # log[j].p
               /\ log[j].began < i
               /\ LET f == pngs[PngName(log[i].emotion, log[i].n)]
                  IN  f.at = IF log[i].savedAt > log[j].savedAt
                             THEN log[i].savedAt ELSE log[j].savedAt
               /\ Cardinality({PngName(log[k].emotion, log[k].n) : k \in Succ}
                                  \cap DOMAIN pngs) < Cardinality(Succ)

\* C3 witness: both processes returned with the same index for one label,
\* and index.csv has the line of only one of the two calls.
C3_Witness ==
    /\ AllIdle
    /\ \E i \in Succ : \E j \in Succ :
          /\ i < j
          /\ log[i].emotion = log[j].emotion
          /\ log[i].n = log[j].n
          /\ log[i].p # log[j].p
    /\ Len(index.rows) < prior + Cardinality(Succ)

\* the fields of the record of a save
RecordFields ==
    {"emotion", "n", "seed", "phrase", "prompt", "timestamp", "size"}

\* the column of index.csv that holds a field of the record; the image
\* size is written to the sidecar only
FieldCol(f) == IF f = "size" THEN "none" ELSE f

\* the value of field f of the record of call i, as save_pair was given it
FieldOf(i, f) ==
    CASE f = "emotion" -> PyStr(log[i].emotion)
      [] f = "n" -> PyInt(log[i].n)
      [] f = "seed" -> PyInt(log[i].seed)
      [] f = "phrase" -> PyStr(log[i].phrase)
      [] f = "prompt" -> PyStr(log[i].prompt)
      [] f = "timestamp" -> PyInt(log[i].ts)
      [] OTHER -> <<log[i].img.width, log[i].img.height>>

\* pd.read_csv(idx) has a row for call i that gives back the fields fs
ReadsBack(i, fs) ==
    /\ index.st = "table"
    /\ LET df == ReadCsv(index.rows)
       IN  \E r \in 1..Len(df) :
              /\ df[r]["filename_png"] = PyStr(PngName(log[i].emotion, log[i].n))
              /\ \A f \in fs :
                    /\ FieldCol(f) \in ColSet
                    /\ df[r][FieldCol(f)] = FieldOf(i, f)

\* C12 (as stated): between calls of one writer, reading index.csv back
\* gives, for every call that returned, a row with the label, the integer
\* n, the integer seed, the phrase, the prompt, the timestamp and the image
\* size of that call.
C12_RecordReadsBack ==
    AllIdle => \A i \in Succ : ReadsBack(i, RecordFields)

\* the same for the fields the row schema has (all but the image size)
C12_ColumnsReadBack ==
    AllIdle => \A i \in Succ : ReadsBack(i, RecordFields \ {"size"})

----------------------------------------------------------------------------
(* Main: the window of ai_dataset_studio and its handlers *)

\* what the user types as a phrase, as a prompt, sets as a seed
GuiPhrases == {<<>>, <<" ", "a", "b">>}

GuiPrompts == {<<>>, <<"p">>}

GuiSeeds == {0, 7}

\* the fixed pieces of the text emotion_to_prompt builds
PROMPT_A == <<".", " ", "s", "p", "e", "c", "t", "r", "o", "g", "r", "a", "m", " ", "o", "f", " ">>

PROMPT_B ==
    <<" ", "a", "m", "b", "i", "e", "n", "t", " ", "s", "o", "u", "n", "d", ",", " ", "s", "u", "s", "t", "a", "i", "n", "e", "d", " ", "t", "o", "n", "e", "s", ",", " ", "m", "i", "n", "i", "m", "a", "l", " ", "r", "h", "y", "t", "h", "m", ".", " ", "v", "a", "l", "e", "n", "c", "e", ":">>

PROMPT_C == <<",", " ", "a", "r", "o", "u", "s", "a", "l", ":">>

PROMPT_D == <<",", " ", "2", "4", "k", "H", "z", ",", " ", "1", "0", "s", ",", " ", "c", "l", "e", "a", "n", " ", "t", "e", "x", "t", "u", "r", "e">>

\* "[emotion:" of on_analyze's f"[emotion:{...}] {prompt}"
PROMPT_TAG == <<"[", "e", "m", "o", "t", "i", "o", "n", ":">>

\* f"{x:.2f}" of x = h / 100, h >= 0
Fmt2f(h) ==
    IntToStr(h \div 100) \o <<".">>
        \o (IF h % 100 < 10 THEN <<"0">> ELSE <<>>) \o IntToStr(h % 100)

\* ", ".join(labels)
RECURSIVE Join(_)
Join(labels) ==
    IF labels = <<>> THEN <<>>
    ELSE IF Len(labels) = 1 THEN labels[1]
    ELSE labels[1] \o <<",", " ">> \o Join(Tail(labels))

\* num / den to the nearest whole number
Rounded(num, den) == (2 * num + den) \div (2 * den)

\* emotion_to_prompt(user_text, emo)
EmotionToPrompt(user_text, emo) ==
    user_text
        \o PROMPT_A
        \o Join(emo.labels)
        \o PROMPT_B
        \o Fmt2f(Rounded(emo.va.v, emo.va.den))
        \o PROMPT_C
        \o Fmt2f(Rounded(emo.va.a, emo.va.den))
        \o PROMPT_D

\* the items of cmb_emotion modelled
ComboItems == Labels

\* QComboBox.setCurrentText on a box that is not editable: selects the
\* item with that text, does nothing when there is none
SetCurrentText(current, t) == IF t \in ComboItems THEN t ELSE current

\* max(emo.probs, key=emo.probs.get): the first key of the largest value
Best(probs) == Sorted(probs, "prob")[1].k

\* on_analyze as a function of the window
Analyzed(g) ==
    LET text == Strip(g.phrase)
        emo == AnalyzeTextEmotion(text, DEFAULT_LEXICON)
        chosen == SetCurrentText(g.emotion, Best(emo.probs))
    IN  IF text = <<>> THEN [g EXCEPT !.msg = "Manquant"]
        ELSE [g EXCEPT !.emotion = chosen,
                       !.prompt = PROMPT_TAG \o chosen \o <<"]", " ">>
                                      \o EmotionToPrompt(text, emo),
                       !.msg = ""]

\* on_preview as a function of the window: an empty prompt is filled in by
\* on_analyze first; the image is rendered from the prompt and the seed of
\* the moment
Previewed(g) ==
    LET g1 == IF Strip(g.prompt) = <<>> THEN Analyzed(g) ELSE g
    IN  IF Strip(g.phrase) = <<>> THEN [g EXCEPT !.msg = "Manquant"]
        ELSE [g1 EXCEPT !.last_img = Render(Strip(g1.prompt), g1.seed),
                        !.msg = ""]

\* the user edits txt_phrase
EditPhrase ==
    /\ \E t \in GuiPhrases \ {gui.phrase} :
          gui' = [gui EXCEPT !.phrase = t, !.msg = ""]
    /\ UNCHANGED <<utext, lex, res>>
    /\ UNCHANGED diskVars

\* the user edits txt_prompt
EditPrompt ==
    /\ \E t \in GuiPrompts \ {gui.prompt} :
          gui' = [gui EXCEPT !.prompt = t, !.msg = ""]
    /\ UNCHANGED <<utext, lex, res>>
    /\ UNCHANGED diskVars

\* the user changes spin_seed
SetSeed ==
    /\ \E sd \in GuiSeeds \ {gui.seed} :
          gui' = [gui EXCEPT !.seed = sd, !.msg = ""]
    /\ UNCHANGED <<utext, lex, res>>
    /\ UNCHANGED diskVars

OnAnalyze ==
    /\ gui' = Analyzed(gui)
    /\ UNCHANGED <<utext, lex, res>>
    /\ UNCHANGED diskVars

OnPreview ==
    /\ gui' = Previewed(gui)
    /\ UNCHANGED <<utext, lex, res>>
    /\ UNCHANGED diskVars

\* on_save with a phrase or a prompt missing: a warning, nothing else
OnSaveMissing ==
    /\ (Strip(gui.phrase) = <<>> \/ Strip(gui.prompt) = <<>>)
    /\ gui' = [gui EXCEPT !.msg = "Manquant"]
    /\ UNCHANGED <<utext, lex, res>>
    /\ UNCHANGED diskVars

\* save_pair(out_dir, emotion, phrase, prompt, seed, img) from its first
\* line to its return, the clock reading ts
SavePair(emotion, phrase, prompt, seed, img, ts) ==
    \E n \in {NextIdx(DirNames, emotion)} :
    \E row \in {RowOf(emotion, n, seed, phrase, prompt, ts)} :
        /\ dirExists' = TRUE
        /\ saves' = saves + 1
        /\ pngs' = WriteFile(pngs, PngName(emotion, n),
                             [id |-> img.id, whole |-> TRUE, at |-> saves + 1])
        /\ now' = ts
        /\ txts' = WriteFile(txts, TxtName(emotion, n),
                      [emotion |-> emotion, n |-> n, timestamp |-> ts,
                       seed |-> seed, phrase |-> phrase, prompt |-> prompt,
                       width |-> img.width, height |-> img.height,
                       whole |-> TRUE])
        /\ index' = Table(ToCsvRows(
                         IF index.st = "absent" THEN <<row>>
                         ELSE Concat(ReadCsv(index.rows), row)))
        /\ log' = Append(log, [p |-> 1, emotion |-> emotion, n |-> n,
                               ok |-> TRUE, step |-> "done", made |-> TRUE,
                               began |-> Len(log), savedAt |-> saves + 1,
                               seed |-> seed, phrase |-> phrase,
                               prompt |-> prompt, ts |-> ts, img |-> img])

\* the window when on_save reaches save_pair: on_preview has run first
\* when there was no image
BeforeSave(g) == IF g.last_img = NoImage THEN Previewed(g) ELSE g

\* on_save: save_pair is given the emotion, phrase, prompt and seed the
\* widgets hold now, and self._last_img
OnSave ==
    /\ Strip(gui.phrase) # <<>>
    /\ Strip(gui.prompt) # <<>>
    /\ Len(log) < MaxSaves
    /\ \E g1 \in {BeforeSave(gui)} : \E ts \in {t \in Times : t >= now} :
          /\ SavePair(g1.emotion, Strip(gui.phrase), Strip(gui.prompt),
                      g1.seed, g1.last_img, ts)
          /\ gui' = [g1 EXCEPT !.msg = "OK"]
    /\ UNCHANGED <<proc, nfail, prior>>
    /\ UNCHANGED <<utext, lex, res>>

\* on_save when save_pair raises before it wrote anything (out_dir cannot
\* be created): the handler catches it and shows the error
OnSaveRaises ==
    /\ Strip(gui.phrase) # <<>>
    /\ Strip(gui.prompt) # <<>>
    /\ Len(log) < MaxSaves
    /\ ~dirExists
    /\ Fail
    /\ \E g1 \in {BeforeSave(gui)} :
          /\ log' = Append(log, [p |-> 1, emotion |-> g1.emotion, n |-> 0,
                                 ok |-> FALSE, step |-> "mkdir",
                                 made |-> FALSE, began |-> Len(log),
                                 savedAt |-> 0, seed |-> g1.seed,
                                 phrase |-> Strip(gui.phrase),
                                 prompt |-> Strip(gui.prompt), ts |-> 0,
                                 img |-> g1.last_img])
          /\ gui' = [g1 EXCEPT !.msg = "Erreur sauvegarde"]
    /\ UNCHANGED <<dirExists, pngs, txts, index, proc, prior, saves, now>>
    /\ UNCHANGED <<utext, lex, res>>

InitWindow ==
    /\ InitDisk
    /\ proc = [p \in Procs |-> IdleProc]
    /\ log = <<>>
    /\ nfail = 0
    /\ saves = 0
    /\ now = 0
    /\ utext = <<>>
    /\ lex = DEFAULT_LEXICON
    /\ res = NoRes
    /\ gui = InitGui

NextGui ==
    \/ EditPhrase
    \/ EditPrompt
    \/ SetSeed
    \/ OnAnalyze
    \/ OnPreview
    \/ OnSaveMissing
    \/ OnSave
    \/ OnSaveRaises

SpecGui == InitWindow /\ [][NextGui]_vars

\* C14 (as stated): the seed and the prompt of every record on_save
\* persisted are the seed and the prompt its image was rendered from.
C14_RecordMatchesImage ==
    \A i \in Succ :
        /\ log[i].seed = log[i].img.seed
        /\ log[i].prompt = log[i].img.prompt

----------------------------------------------------------------------------
(* nlp_emo called on a text and a lexicon *)

\* the pieces texts are put together from: words of the lexicon as a user
\* types them, and single characters of every class normalize treats
Tokens ==
    {<<"r", "a", "v", "i">>, <<"r", "a", "g", "e">>, <<"N", "u", "i", "t">>,
     <<"m", "o", "t", "i", "v", "e_acute">>,
     <<" ">>, <<"\t">>, <<"!">>, <<"1">>, <<"E_ACUTE">>, <<"sharp_s">>}

RECURSIVE TextsOf(_)
TextsOf(k) ==
    IF k = 0 THEN {<<>>}
    ELSE LET shorter == TextsOf(k - 1)
         IN  shorter \cup {t \o tok : t \in shorter, tok \in Tokens}

\* the words of a lexicon, as it spells them
WordsOf(lexicon) ==
    UNION {{lexicon[i].words[j].w : j \in 1..Len(lexicon[i].words)} :
              i \in 1..Len(lexicon)}

\* the texts tried: the pieces put together, and each word of the lexicon
Texts == TextsOf(MaxTokens) \cup WordsOf(DEFAULT_LEXICON)

Defaults == {DefaultLabel, <<"j", "o", "i", "e">>}

InitNlp ==
    /\ utext \in Texts
    /\ lex \in Lexicons
    /\ res = NoRes
    /\ gui = InitGui
    /\ dirExists = FALSE
    /\ pngs = PriorPngs(0)
    /\ txts = PriorTxts(0)
    /\ index = NoIndex
    /\ proc = [p \in Procs |-> IdleProc]
    /\ log = <<>>
    /\ nfail = 0
    /\ prior = 0
    /\ saves = 0
    /\ now = 0

\* normalize(text)
DoNormalize ==
    /\ res.op = "none"
    /\ res' = [NoRes EXCEPT !.op = "normalize", !.out = Normalize(utext)]
    /\ UNCHANGED <<utext, lex, gui>>
    /\ UNCHANGED diskVars

\* normalize(normalize(text))
DoNormalizeAgain ==
    /\ res.op = "normalize"
    /\ res' = [NoRes EXCEPT !.op = "normalize2", !.prev = res.out,
                            !.out = Normalize(res.out)]
    /\ UNCHANGED <<utext, lex, gui>>
    /\ UNCHANGED diskVars

\* score_emotions(text, lexicon)
DoScore ==
    /\ res.op = "none"
    /\ res' = [NoRes EXCEPT !.op = "score",
                            !.scores = ScoreEmotions(utext, lex)]
    /\ UNCHANGED <<utext, lex, gui>>
    /\ UNCHANGED diskVars

\* guess_emotion(text, lexicon, default)
DoGuess ==
    /\ res.op = "none"
    /\ \E d \in Defaults :
          res' = [NoRes EXCEPT !.op = "guess", !.default = d,
                               !.scores = ScoreEmotions(utext, lex),
                               !.label = GuessEmotion(utext, lex, d)]
    /\ UNCHANGED <<utext, lex, gui>>
    /\ UNCHANGED diskVars

\* the same call once more
DoGuessAgain ==
    /\ res.op = "guess"
    /\ res' = [res EXCEPT !.op = "guess2", !.prev = res.label,
                          !.scores = ScoreEmotions(utext, lex),
                          !.label = GuessEmotion(utext, lex, res.default)]
    /\ UNCHANGED <<utext, lex, gui>>
    /\ UNCHANGED diskVars

\* analyze_text_emotion(text, lexicon)
DoAnalyze ==
    /\ res.op = "none"
    /\ LET emo == AnalyzeTextEmotion(utext, lex)
       IN  res' = [NoRes EXCEPT !.op = "analyze", !.labels = emo.labels,
                                !.probs = emo.probs, !.va = emo.va,
                                !.scores = emo.raw_scores]
    /\ UNCHANGED <<utext, lex, gui>>
    /\ UNCHANGED diskVars

\* load_lexicon(path), the file at path holding `lex` when it is valid
DoLoad ==
    /\ res.op = "none"
    /\ \E src \in LexSources :
          LET got == LoadLexicon(src, lex)
          IN  res' = [NoRes EXCEPT !.op = "load", !.src = src,
                                   !.raised = got.raised,
                                   !.lexicon = got.lexicon]
    /\ UNCHANGED <<utext, lex, gui>>
    /\ UNCHANGED diskVars

NextNlp ==
    \/ DoNormalize
    \/ DoNormalizeAgain
    \/ DoScore
    \/ DoGuess
    \/ DoGuessAgain
    \/ DoAnalyze
    \/ DoLoad

SpecNlp == InitNlp /\ [][NextNlp]_vars

----------------------------------------------------------------------------
(* Claims about nlp_emo *)

Keys(d) == {d[i].k : i \in 1..Len(d)}

Entry(d, key) == d[CHOOSE i \in 1..Len(d) : d[i].k = key]

\* no word of the lexicon occurs in the normalized text
NoTermMatches ==
    \A i \in 1..Len(lex) : \A j \in 1..Len(lex[i].words) :
        ~WordSearch(lex[i].words[j].w, Normalize(utext))

\* a is ranked before b: more probable, or as probable and first by name
RankedBefore(probs, a, b) ==
    LET x == Entry(probs, a)
        y == Entry(probs, b)
    IN  \/ x.num * y.den > y.num * x.den
        \/ (x.num * y.den = y.num * x.den /\ StrLess(a, b))

\* C5 (as stated): the labels of an analysis are the two most probable
\* labels (all of them when there are fewer), most probable first, labels
\* of equal probability in ascending order of name.
C5_TopLabelsTieByName ==
    res.op = "analyze" =>
        /\ Len(res.labels) = (IF Len(res.probs) < 2 THEN Len(res.probs) ELSE 2)
        /\ \A i \in 1..Len(res.labels) : res.labels[i] \in Keys(res.probs)
        /\ \A i \in 1..Len(res.labels) : \A j \in 1..Len(res.labels) :
              i < j => RankedBefore(res.probs, res.labels[i], res.labels[j])
        /\ \A i \in 1..Len(res.labels) :
              \A other \in Keys(res.probs) \ {res.labels[j] : j \in 1..Len(res.labels)} :
                  RankedBefore(res.probs, res.labels[i], other)

\* C6: guess_emotion returns the default when no term matches; otherwise a
\* label whose score no label exceeds and which is first by name among the
\* labels of that score; and the same call again returns the same label.
C6_GuessIsBestFirstByName ==
    res.op \in {"guess", "guess2"} =>
        /\ NoTermMatches => res.label = res.default
        /\ ~NoTermMatches =>
              /\ res.label \in Keys(res.scores)
              /\ \A i \in 1..Len(res.scores) :
                    /\ res.scores[i].v <= Entry(res.scores, res.label).v
                    /\ res.scores[i].v = Entry(res.scores, res.label).v
                          => ~StrLess(res.scores[i].k, res.label)
        /\ res.op = "guess2" => res.label = res.prev

\* C6 witness: two labels share the best score, the one guess_emotion
\* returned is not the one the lexicon lists first, and a second call
\* was made.
C6_Witness ==
    /\ res.op = "guess2"
    /\ \E i \in 1..Len(res.scores) : \E j \in 1..Len(res.scores) :
          /\ i < j
          /\ res.scores[i].v = res.scores[j].v
          /\ res.scores[j].k = res.label

\* C7 (as stated): the keys of probs are all the labels of the lexicon.
C7_ProbsOverAllLabels ==
    res.op = "analyze" => Keys(res.probs) = LabelsOf(lex)

\* C8: when no term matches, the analysis returns probability 1 on "calme"
\* alone, and "calme" as its only label.
C8_NoMatchGivesDefault ==
    (res.op = "analyze" /\ NoTermMatches) =>
        /\ Len(res.probs) = 1
        /\ res.probs[1].k = DefaultLabel
        /\ res.probs[1].num = res.probs[1].den
        /\ res.labels = <<DefaultLabel>>

\* C8 witness: a text with a word in it, none of the lexicon, was analysed.
C8_Witness ==
    /\ res.op = "analyze"
    /\ NoTermMatches
    /\ Normalize(utext) # <<>>

\* C9: normalize(normalize(x)) = normalize(x).
C9_NormalizeIdempotent ==
    res.op = "normalize2" => res.out = res.prev

\* C9 witness: normalize was applied twice to a text with an upper-case
\* accented letter, punctuation and white space that it changed.
C9_Witness ==
    /\ res.op = "normalize2"
    /\ res.prev # utext
    /\ res.prev # <<>>
    /\ \E i \in 1..Len(utext) : utext[i] = "E_ACUTE"
    /\ \E i \in 1..Len(utext) : utext[i] = "!"
    /\ \E i \in 1..Len(utext) : utext[i] = "\t"

\* C10 (as stated): given a source that is absent, unreadable or malformed,
\* load_lexicon raises nothing and returns the built-in lexicon.
C10_LoadFallsBack ==
    (res.op = "load" /\ res.src \in {"none", "missing", "unreadable", "malformed"})
        => (res.raised = "" /\ res.lexicon = DEFAULT_LEXICON)

\* C11 (as stated): analysing a text that is empty or white space only
\* raises a validation error and gives no labels, no distribution and no
\* affect coordinate.
C11_BlankTextIsRejected ==
    (res.op = "analyze" /\ Strip(utext) = <<>>) =>
        /\ res.raised = "ValidationError"
        /\ res.labels = <<>>
        /\ res.probs = <<>>
        /\ res.va = <<>>

\* C13 (as stated): for every entry (label, word, weight) of the lexicon,
\* score_emotions of the text that is exactly that word gives the label a
\* score of at least the weight.
C13_EveryEntryMatches ==
    res.op = "score" =>
        \A i \in 1..Len(lex) : \A j \in 1..Len(lex[i].words) :
            utext = lex[i].words[j].w =>
                \E k \in 1..Len(res.scores) :
                    /\ res.scores[k].k = lex[i].label
                    /\ res.scores[k].v >= lex[i].words[j].weight

====
